---- MODULE Spec2Model ----
(***************************************************************************)
(* MouseBridge: the session controller (src-tauri/src/bridge.rs) and the   *)
(* transport roles it drives (src-tauri/src/network.rs).                   *)
(*                                                                         *)
(* Every service operation is an async fn; a task runs it from one await   *)
(* that can suspend (a tokio Mutex lock, a channel send) to the next.  A   *)
(* task's position is a stack of frames, because start_server and          *)
(* connect_client call stop_server and disconnect_client on the same       *)
(* service while their own guard of the mode mutex is still alive.         *)
(* tokio::sync::Mutex is not reentrant.                                    *)
(***************************************************************************)
EXTENDS Integers, Sequences, FiniteSets, TLC

\* ------------------------------------------------------------------ bounds
NumTasks == 2
NumConfigs == 2
MaxHandles == 2
MaxCoord == 1
NumButtons == 4
MaxWheel == 1
MaxAdds == 103
MaxSpeed == 600
NumCallers == 2
MaxFlips == 2
MaxScreen == 3
NumExternal == 1
MaxCount == 1
MaxBytes == 2

\* Constants of the source.
PointCap == 100
MinPoints == 5
MinMillis == 500
MinDistance == 50
DefaultSpeed == 100
SpeedFloor == 10
SpeedCeiling == 500
ScreenWidth == 1920
TransitionZone == 10

\* ------------------------------------------------------- program constants
DefaultPort == 4242
ChannelCapacity == 1

Tasks == 1..NumTasks
NoTask == 0
NoHandle == 0
Handles == 1..MaxHandles

\* ConnectionConfig: the fields the service reads (host, port).
DefaultConfig == [host |-> "127.0.0.1", port |-> DefaultPort]

\* The configs a caller passes: distinct hosts and ports, none the default.
CallerConfigs == { [host |-> "peer", port |-> DefaultPort + c] : c \in 1..NumConfigs }

BridgeMode == {"Server", "Client", "Disconnected"}

Locks == {"mode", "config", "server", "client", "server_info"}

Ops == {"start_server", "stop_server", "connect_client", "disconnect_client",
        "get_connection_status", "get_server_info"}

NoInfo == [present |-> FALSE]

VARIABLES
    svc,            \* MouseBridgeService: mode, config, server, client, server_info
    lockOwner,      \* the task whose guard of each tokio Mutex is alive
    stack,          \* per task: the frames of the async calls it is inside
    hist,           \* the last two completed calls, oldest first (history)
    nextFp,         \* the next fingerprint Uuid::new_v4 yields (fresh each time)
    nextId,         \* the next stop channel / background loop to be created
    kind,           \* per channel: "server" | "client" | "none"
    loopPc,         \* per channel: its spawned loop: none | select | tick | exited
    timer,          \* per channel: the select's sleep has elapsed
    buf,            \* per channel: messages buffered in the mpsc channel
    senders,        \* per channel: the live Sender clones ("handle", "owner")
    sent,           \* per channel: send() calls made on it
    stopReturned,   \* per channel: stop()/disconnect() has returned (history)
    tickAfterStop,  \* per channel: a tick began after stop() returned (history)
    last_mouse_state, \* InputManager: the sample the previous capture stored
    capPc,          \* capture_mouse_events: "idle" | "sampled" (device read, lock next)
    current_mouse,  \* capture_mouse_events: the sample it read from the device
    prev_mouse,     \* the stored sample the newest capture compared with (history)
    events,         \* the Vec<MouseEvent> the newest capture returned
    injected,       \* the MouseEvent the newest emulate_mouse_event was given
    enigo,          \* the Enigo calls that emulate_mouse_event issued, in order
    points,         \* GestureTracker: the buffered points, oldest first
    elapsed,        \* GestureTracker: whole ms since start_time (Instant::elapsed)
    is_active,      \* GestureTracker: the active flag
    gesture,        \* what the newest detect_gesture returned
    gOp,            \* the newest step on the tracker (history)
    added,          \* add_point calls made so far (history)
    cursor_speed,   \* InputConfig::cursor_speed of the global manager
    speedArg,       \* the argument of the newest set_cursor_speed (history)
    speedResult,    \* what the newest set_cursor_speed returned
    cursor_locked,  \* InputConfig::cursor_locked
    locked_screen,  \* InputConfig::locked_screen
    mouse_acceleration, \* InputConfig::mouse_acceleration
    lockArg,        \* the argument of the newest lock_cursor_to_screen (history)
    cfgOp,          \* the newest call on the InputConfig (history)
    device,         \* the mouse as DeviceState::get_mouse would report it now
    deviceRead,     \* the device has been read since it last changed (history)
    cap,            \* per concurrent capture_mouse_events call: its pc and sample
    latestRead,     \* the sample read most recently by any call (history)
    flips,          \* times the left button of the device has flipped (history)
    reports,        \* left-button events returned by all calls so far (history)
    plugins,        \* PluginManager::plugins: name -> PluginInfo (enabled, dependencies)
    enabled_plugins, \* PluginConfig::enabled_plugins, in Vec order
    plugPc,         \* the enable_plugin / disable_plugin call under way: where it is
    plugOp,         \* ... which of the two it is
    plugName,       \* ... its plugin_name
    pluginsHeld,    \* a guard of the plugins mutex is alive
    configHeld,     \* a guard of the config mutex is alive
    plugResult,     \* how the newest call ended
    plugBefore,     \* plugins and enabled_plugins when the newest call began (history)
    analytics_enabled, \* AnalyticsManager::enabled
    session_data,   \* AnalyticsManager::session_data: the counters of SessionMetrics
    aOp,            \* the newest call on the AnalyticsManager (history)
    aBytes          \* the argument of the newest record_data_transfer (history)

svcVars == <<svc, lockOwner, stack, hist, nextFp>>
netVars == <<nextId, kind, loopPc, timer, buf, senders, sent, stopReturned, tickAfterStop>>
inputVars == <<last_mouse_state, capPc, current_mouse, prev_mouse, events, injected, enigo>>
gestureVars == <<points, elapsed, is_active, gesture, gOp, added>>
cfgVars == <<cursor_speed, speedArg, speedResult, cursor_locked, locked_screen,
             mouse_acceleration, lockArg, cfgOp>>
trackerVars == <<gestureVars, cfgVars>>
concVars == <<device, deviceRead, cap, latestRead, flips, reports>>
pluginVars == <<plugins, enabled_plugins, plugPc, plugOp, plugName, pluginsHeld,
                configHeld, plugResult, plugBefore>>
analyticsVars == <<analytics_enabled, session_data, aOp, aBytes>>
appVars == <<concVars, pluginVars, analyticsVars>>
deviceVars == <<inputVars, trackerVars, appVars>>
vars == <<svcVars, netVars, deviceVars>>

\* ---------------------------------------------------------------- helpers
Top(t) == stack[t][Len(stack[t])]
InCall(t) == Len(stack[t]) > 0
SetTop(t, f) == [stack EXCEPT ![t] = [@ EXCEPT ![Len(@)] = f]]
NoConfig == [host |-> "", port |-> 0]
NewFrame(op, cfg, issued) ==
    [op |-> op, pc |-> "lock", cfg |-> cfg, issued |-> issued,
     pre |-> [taken |-> FALSE], h |-> NoHandle, info |-> NoInfo,
     ret |-> [ok |-> TRUE]]

\* What a caller can observe of the service and of the channels at one instant.
Snapshot(s, sn, id) == [taken |-> TRUE, svc |-> s, sent |-> sn, spawned |-> id - 1]

\* Result<()>: Ok(()) and Err(anyhow).
OkUnit == [ok |-> TRUE]
Err(msg) == [ok |-> FALSE, msg |-> msg]

\* tokio::sync::Mutex: lock().await completes only while no guard is alive; the
\* task that holds the guard is no exception.
MutexNeverBlocks(l, t) == TRUE
LockFree(l, t) == lockOwner[l] = NoTask
Acquire(lo, l, t) == [lo EXCEPT ![l] = t]
Release(lo, l) == [lo EXCEPT ![l] = NoTask]

\* The values the four role operations return on their no-op paths.
NoopErr(op) == Err("not running")
NoopResult(op) == OkUnit

\* The guards of the role operations (bridge.rs:50, 84, 102, 124).
AlreadyServer(m) == m = "Server"
NotServer(m) == m # "Server"
AlreadyClient(m) == m = "Client"
NotClient(m) == m # "Client"

\* The mode stop_server and disconnect_client leave (bridge.rs:94, 134).
ModeAfterStop == "Disconnected"

\* The top frame f of task t returns res; post is what the caller then observes.
\* A nested call hands res to the frame that awaits it (the `?` of bridge.rs:55).
Finish(t, f, res, post) ==
    IF Len(stack[t]) = 1
    THEN /\ stack' = [stack EXCEPT ![t] = <<>>]
         /\ LET all == Append(hist,
                        [task |-> t, op |-> f.op, cfg |-> f.cfg, issued |-> f.issued,
                         pre |-> f.pre, post |-> post, res |-> res])
            IN hist' = IF Len(all) > 2 THEN Tail(all) ELSE all
    ELSE /\ LET n == Len(stack[t]) - 1
                 below == SubSeq(stack[t], 1, n)
             IN stack' = [stack EXCEPT ![t] = [below EXCEPT ![n].ret = res]]
         /\ hist' = hist

\* The frame f of task t awaits the nested call op on the same service.
CallNested(t, f, op, retpc) ==
    stack' = [stack EXCEPT ![t] =
                Append([@ EXCEPT ![Len(@)] = [f EXCEPT !.pc = retpc]],
                       NewFrame(op, NoConfig, svc.mode))]

\* mpsc::channel(1) plus tokio::spawn of the role's loop (network.rs:40-60, 74-94):
\* the loop waits in its select with a fresh sleep; the Sender is cloned into the
\* Server/Client object ("owner") and moved into the handle.
Spawn(role) ==
    /\ nextId <= MaxHandles
    /\ nextId' = nextId + 1
    /\ kind' = [kind EXCEPT ![nextId] = role]
    /\ loopPc' = [loopPc EXCEPT ![nextId] = "select"]
    /\ timer' = [timer EXCEPT ![nextId] = FALSE]
    /\ buf' = [buf EXCEPT ![nextId] = 0]
    /\ senders' = [senders EXCEPT ![nextId] = {"handle", "owner"}]
    /\ UNCHANGED <<sent, stopReturned, tickAfterStop>>

\* Sender::send(()).await: it completes when the channel has a free slot, or at
\* once with an error (ignored by `let _ =`) when the receiver is gone.
ReceiverGone(h) == loopPc[h] = "exited"
CanSend(h) == ReceiverGone(h) \/ buf[h] < ChannelCapacity

\* ServerHandle::stop / ClientHandle::disconnect (network.rs:106-118): one send,
\* then the handle, taken by value, is dropped with its Sender.
HandleAfterStopKept(s) == s
HandleAfterStop(s) == s \ {"handle"}
SendStop(h) ==
    /\ CanSend(h)
    /\ buf' = [buf EXCEPT ![h] = IF ReceiverGone(h) THEN @ ELSE @ + 1]
    /\ sent' = [sent EXCEPT ![h] = @ + 1]
    /\ senders' = [senders EXCEPT ![h] = HandleAfterStop(@)]
    /\ stopReturned' = [stopReturned EXCEPT ![h] = TRUE]
    /\ UNCHANGED <<nextId, kind, loopPc, timer, tickAfterStop>>

\* The Server / Client object built in start_server / connect_client is a local:
\* it is dropped, with its Sender clone, when the call returns.
DropOwner(h) ==
    /\ senders' = [senders EXCEPT ![h] = @ \ {"owner"}]
    /\ UNCHANGED <<nextId, kind, loopPc, timer, buf, sent, stopReturned, tickAfterStop>>

\* ------------------------------------------------------------------ input
\* device_query::MouseState: coords and one pressed flag per button index; index
\* i of the Vec is position i + 1 here.  MouseState::default() has no flags.
\* Coordinates are only compared and copied: two rows tell a change of y; the
\* columns are the origin, one short of the transition band of a 1920 wide
\* screen and one inside it.
Coords == {0, 1900, 1915} \X (0..1)
MouseStateDefault == [coords |-> <<0, 0>>, button_pressed |-> <<>>]
DeviceSamples == [coords : Coords, button_pressed : [1..NumButtons -> BOOLEAN]]

\* The mouse at rest at the origin, and the same with the left button held.
DeviceAtRest == [coords |-> <<0, 0>>, button_pressed |-> [i \in 1..NumButtons |-> FALSE]]
LeftFlipped(s) == [s EXCEPT !.button_pressed[1] = ~@]
Callers == 1..NumCallers

\* MouseEvent (input.rs:9-16); an Option is a sequence of length 0 or 1.
None == <<>>
Some(v) == <<v>>
NoEvent == [x |-> 0, y |-> 0, button |-> None, pressed |-> FALSE,
            wheel_x |-> 0, wheel_y |-> 0]

\* An f32 is modelled in hundredths; NaN is a value of its own.
Float(n) == [nan |-> FALSE, v |-> n]
NaN == [nan |-> TRUE, v |-> 0]

\* The counters of SessionMetrics (analytics.rs:9-17).
Counters == {"connections_made", "data_transferred", "errors_encountered",
             "mouse_events_processed", "clipboard_shares", "hotkey_triggers"}

\* ------------------------------------------------------------------- Init
\* MouseBridgeService::new (bridge.rs:37-46) with its InputManager::new
\* (input.rs:104-119); no channel exists yet.  PluginManager::new
\* (plugins.rs:31-48): no plugin registered, none enabled.  AnalyticsManager::new
\* (analytics.rs:25-38): enabled, every counter zero.
ServiceNew ==
    /\ svc = [mode |-> "Disconnected", config |-> DefaultConfig,
              server |-> NoHandle, client |-> NoHandle, server_info |-> NoInfo]
    /\ lockOwner = [l \in Locks |-> NoTask]
    /\ stack = [t \in Tasks |-> <<>>]
    /\ hist = <<>>
    /\ nextFp = 1
    /\ nextId = 1
    /\ kind = [h \in Handles |-> "none"]
    /\ loopPc = [h \in Handles |-> "none"]
    /\ timer = [h \in Handles |-> FALSE]
    /\ buf = [h \in Handles |-> 0]
    /\ senders = [h \in Handles |-> {}]
    /\ sent = [h \in Handles |-> 0]
    /\ stopReturned = [h \in Handles |-> FALSE]
    /\ tickAfterStop = [h \in Handles |-> FALSE]
    /\ last_mouse_state = MouseStateDefault
    /\ capPc = "idle"
    /\ current_mouse = MouseStateDefault
    /\ prev_mouse = MouseStateDefault
    /\ events = <<>>
    /\ injected = NoEvent
    /\ enigo = <<>>
    /\ cursor_speed = Float(DefaultSpeed)
    /\ speedArg = Float(DefaultSpeed)
    /\ speedResult = None
    /\ cursor_locked = FALSE
    /\ locked_screen = None
    /\ mouse_acceleration = FALSE
    /\ lockArg = None
    /\ cfgOp = "new"
    /\ device = DeviceAtRest
    /\ deviceRead = TRUE
    /\ cap = [c \in Callers |-> [pc |-> "idle", sample |-> MouseStateDefault]]
    /\ latestRead = MouseStateDefault
    /\ flips = 0
    /\ reports = 0
    /\ plugins = <<>>
    /\ enabled_plugins = <<>>
    /\ plugPc = "idle"
    /\ plugOp = "none"
    /\ plugName = ""
    /\ pluginsHeld = FALSE
    /\ configHeld = FALSE
    /\ plugResult = None
    /\ plugBefore = <<<<>>, <<>>>>
    /\ analytics_enabled = TRUE
    /\ session_data = [c \in Counters |-> 0]
    /\ aOp = "new"
    /\ aBytes = 0

\* GestureTracker::new (input.rs:44-50).
TrackerNew ==
    /\ points = <<>>
    /\ elapsed = 0
    /\ is_active = FALSE
    /\ gesture = None
    /\ gOp = "new"
    /\ added = 0

Init == ServiceNew /\ TrackerNew

\* ------------------------------------------------- the command surface
\* A Tauri command handler (main.rs:66-122) awaits one service operation.
Call(t, op, cfg) ==
    /\ ~InCall(t)
    /\ stack' = [stack EXCEPT ![t] = <<NewFrame(op, cfg, svc.mode)>>]
    /\ UNCHANGED <<svc, lockOwner, hist, nextFp, netVars, deviceVars>>

\* ---------------------------------------------------------- start_server
\* bridge.rs:48-80.  Steps run from one await that can suspend to the next:
\*   lock                   49-55  lock mode; Server: return; else await stop_server
\*   ret_stop_server        55-56  `?`, then await disconnect_client
\*   ret_disconnect_client  56-74  `?`, identity, Server::new, start, *mode = Server
\*   lock_config            75     *config = config
\*   lock_server            76     *server = Some(handle)
\*   lock_server_info       77-80  *server_info = Some(info); Ok; guard dropped
StartServer(t) ==
    /\ InCall(t)
    /\ Top(t).op = "start_server"
    /\ UNCHANGED deviceVars
    /\ LET f == Top(t) IN
       CASE f.pc = "lock" ->
              /\ LockFree("mode", t)
              /\ LET g == [f EXCEPT !.pre = Snapshot(svc, sent, nextId)] IN
                 IF AlreadyServer(svc.mode)
                 THEN /\ Finish(t, g, NoopResult("start_server"), Snapshot(svc, sent, nextId))
                      /\ lockOwner' = Release(lockOwner, "mode")
                 ELSE /\ CallNested(t, g, "stop_server", "ret_stop_server")
                      /\ lockOwner' = Acquire(lockOwner, "mode", t)
                      /\ hist' = hist
              /\ UNCHANGED <<svc, nextFp, netVars>>
         [] f.pc = "ret_stop_server" ->
              /\ IF ~f.ret.ok
                 THEN /\ Finish(t, f, f.ret, Snapshot(svc, sent, nextId))
                      /\ lockOwner' = Release(lockOwner, "mode")
                 ELSE /\ CallNested(t, f, "disconnect_client", "ret_disconnect_client")
                      /\ UNCHANGED <<lockOwner, hist>>
              /\ UNCHANGED <<svc, nextFp, netVars>>
         [] f.pc = "ret_disconnect_client" ->
              IF ~f.ret.ok
              THEN /\ Finish(t, f, f.ret, Snapshot(svc, sent, nextId))
                   /\ lockOwner' = Release(lockOwner, "mode")
                   /\ UNCHANGED <<svc, nextFp, netVars>>
              ELSE /\ Spawn("server")
                   /\ nextFp' = nextFp + 1
                   /\ svc' = [svc EXCEPT !.mode = "Server"]
                   /\ stack' = SetTop(t, [f EXCEPT !.pc = "lock_config", !.h = nextId,
                                   !.info = [present |-> TRUE, hostname |-> "localhost",
                                             ip |-> "127.0.0.1", port |-> f.cfg.port,
                                             fingerprint |-> nextFp]])
                   /\ UNCHANGED <<lockOwner, hist>>
         [] f.pc = "lock_config" ->
              /\ LockFree("config", t)
              /\ svc' = [svc EXCEPT !.config = f.cfg]
              /\ stack' = SetTop(t, [f EXCEPT !.pc = "lock_server"])
              /\ UNCHANGED <<lockOwner, hist, nextFp, netVars>>
         [] f.pc = "lock_server" ->
              /\ LockFree("server", t)
              /\ svc' = [svc EXCEPT !.server = f.h]
              /\ stack' = SetTop(t, [f EXCEPT !.pc = "lock_server_info"])
              /\ UNCHANGED <<lockOwner, hist, nextFp, netVars>>
         [] f.pc = "lock_server_info" ->
              /\ LockFree("server_info", t)
              /\ svc' = [svc EXCEPT !.server_info = f.info]
              /\ DropOwner(f.h)
              /\ Finish(t, f, OkUnit,
                        Snapshot(svc', sent, nextId))
              /\ lockOwner' = Release(lockOwner, "mode")
              /\ nextFp' = nextFp

\* ----------------------------------------------------------- stop_server
\* bridge.rs:82-98.
\*   lock              83-86  lock mode; not Server: return Ok
\*   lock_server       89     lock server, take(); None: 94 *mode = Disconnected
\*   send              90-94  handle.stop(): send; server guard dropped; *mode = ..
\*   lock_server_info  95-97  *server_info = None; Ok; guard dropped
StopServer(t) ==
    /\ InCall(t)
    /\ Top(t).op = "stop_server"
    /\ UNCHANGED deviceVars
    /\ LET f == Top(t) IN
       CASE f.pc = "lock" ->
              /\ LockFree("mode", t)
              /\ LET g == [f EXCEPT !.pre = Snapshot(svc, sent, nextId)] IN
                 IF NotServer(svc.mode)
                 THEN /\ Finish(t, g, NoopResult("stop_server"), Snapshot(svc, sent, nextId))
                      /\ lockOwner' = Release(lockOwner, "mode")
                 ELSE /\ stack' = SetTop(t, [g EXCEPT !.pc = "lock_server"])
                      /\ lockOwner' = Acquire(lockOwner, "mode", t)
                      /\ hist' = hist
              /\ UNCHANGED <<svc, nextFp, netVars>>
         [] f.pc = "lock_server" ->
              /\ LockFree("server", t)
              /\ IF svc.server = NoHandle
                 THEN /\ svc' = [svc EXCEPT !.mode = ModeAfterStop]
                      /\ stack' = SetTop(t, [f EXCEPT !.pc = "lock_server_info"])
                      /\ lockOwner' = lockOwner
                 ELSE /\ svc' = [svc EXCEPT !.server = NoHandle]
                      /\ stack' = SetTop(t, [f EXCEPT !.pc = "send", !.h = svc.server])
                      /\ lockOwner' = Acquire(lockOwner, "server", t)
              /\ UNCHANGED <<hist, nextFp, netVars>>
         [] f.pc = "send" ->
              /\ SendStop(f.h)
              /\ svc' = [svc EXCEPT !.mode = ModeAfterStop]
              /\ stack' = SetTop(t, [f EXCEPT !.pc = "lock_server_info"])
              /\ lockOwner' = Release(lockOwner, "server")
              /\ UNCHANGED <<hist, nextFp>>
         [] f.pc = "lock_server_info" ->
              /\ LockFree("server_info", t)
              /\ svc' = [svc EXCEPT !.server_info = NoInfo]
              /\ Finish(t, f, OkUnit, Snapshot(svc', sent, nextId))
              /\ lockOwner' = Release(lockOwner, "mode")
              /\ UNCHANGED <<nextFp, netVars>>

\* -------------------------------------------------------- connect_client
\* bridge.rs:100-120.
\*   lock                   101-107  lock mode; Client: return; else await stop_server
\*   ret_stop_server        107-108  `?`, then await disconnect_client
\*   ret_disconnect_client  108-115  `?`, Client::new, connect, *mode = Client
\*   lock_config            116      *config = config
\*   lock_client            117-120  *client = Some(handle); Ok; guard dropped
ConnectClient(t) ==
    /\ InCall(t)
    /\ Top(t).op = "connect_client"
    /\ UNCHANGED deviceVars
    /\ LET f == Top(t) IN
       CASE f.pc = "lock" ->
              /\ LockFree("mode", t)
              /\ LET g == [f EXCEPT !.pre = Snapshot(svc, sent, nextId)] IN
                 IF AlreadyClient(svc.mode)
                 THEN /\ Finish(t, g, NoopResult("connect_client"), Snapshot(svc, sent, nextId))
                      /\ lockOwner' = Release(lockOwner, "mode")
                 ELSE /\ CallNested(t, g, "stop_server", "ret_stop_server")
                      /\ lockOwner' = Acquire(lockOwner, "mode", t)
                      /\ hist' = hist
              /\ UNCHANGED <<svc, nextFp, netVars>>
         [] f.pc = "ret_stop_server" ->
              /\ IF ~f.ret.ok
                 THEN /\ Finish(t, f, f.ret, Snapshot(svc, sent, nextId))
                      /\ lockOwner' = Release(lockOwner, "mode")
                 ELSE /\ CallNested(t, f, "disconnect_client", "ret_disconnect_client")
                      /\ UNCHANGED <<lockOwner, hist>>
              /\ UNCHANGED <<svc, nextFp, netVars>>
         [] f.pc = "ret_disconnect_client" ->
              IF ~f.ret.ok
              THEN /\ Finish(t, f, f.ret, Snapshot(svc, sent, nextId))
                   /\ lockOwner' = Release(lockOwner, "mode")
                   /\ UNCHANGED <<svc, nextFp, netVars>>
              ELSE /\ Spawn("client")
                   /\ svc' = [svc EXCEPT !.mode = "Client"]
                   /\ stack' = SetTop(t, [f EXCEPT !.pc = "lock_config", !.h = nextId])
                   /\ UNCHANGED <<lockOwner, hist, nextFp>>
         [] f.pc = "lock_config" ->
              /\ LockFree("config", t)
              /\ svc' = [svc EXCEPT !.config = f.cfg]
              /\ stack' = SetTop(t, [f EXCEPT !.pc = "lock_client"])
              /\ UNCHANGED <<lockOwner, hist, nextFp, netVars>>
         [] f.pc = "lock_client" ->
              /\ LockFree("client", t)
              /\ svc' = [svc EXCEPT !.client = f.h]
              /\ DropOwner(f.h)
              /\ Finish(t, f, OkUnit, Snapshot(svc', sent, nextId))
              /\ lockOwner' = Release(lockOwner, "mode")
              /\ nextFp' = nextFp

\* ----------------------------------------------------- disconnect_client
\* bridge.rs:122-137.
\*   lock         123-126  lock mode; not Client: return Ok
\*   lock_client  129      lock client, take(); None: 134-136 *mode = ..; Ok
\*   send         130-136  handle.disconnect(): send; *mode = Disconnected; Ok
DisconnectClient(t) ==
    /\ InCall(t)
    /\ Top(t).op = "disconnect_client"
    /\ UNCHANGED deviceVars
    /\ LET f == Top(t) IN
       CASE f.pc = "lock" ->
              /\ LockFree("mode", t)
              /\ LET g == [f EXCEPT !.pre = Snapshot(svc, sent, nextId)] IN
                 IF NotClient(svc.mode)
                 THEN /\ Finish(t, g, NoopResult("disconnect_client"), Snapshot(svc, sent, nextId))
                      /\ lockOwner' = Release(lockOwner, "mode")
                 ELSE /\ stack' = SetTop(t, [g EXCEPT !.pc = "lock_client"])
                      /\ lockOwner' = Acquire(lockOwner, "mode", t)
                      /\ hist' = hist
              /\ UNCHANGED <<svc, nextFp, netVars>>
         [] f.pc = "lock_client" ->
              /\ LockFree("client", t)
              /\ IF svc.client = NoHandle
                 THEN /\ svc' = [svc EXCEPT !.mode = ModeAfterStop]
                      /\ Finish(t, f, OkUnit, Snapshot(svc', sent, nextId))
                      /\ lockOwner' = Release(lockOwner, "mode")
                 ELSE /\ svc' = [svc EXCEPT !.client = NoHandle]
                      /\ stack' = SetTop(t, [f EXCEPT !.pc = "send", !.h = svc.client])
                      /\ lockOwner' = Acquire(lockOwner, "client", t)
                      /\ hist' = hist
              /\ UNCHANGED <<nextFp, netVars>>
         [] f.pc = "send" ->
              /\ SendStop(f.h)
              /\ svc' = [svc EXCEPT !.mode = ModeAfterStop]
              /\ Finish(t, f, OkUnit, Snapshot(svc', sent', nextId))
              /\ lockOwner' = Release(Release(lockOwner, "client"), "mode")
              /\ nextFp' = nextFp

\* ------------------------------------------------- get_connection_status
\* bridge.rs:139-152: both guards live until the return.
\*   lock         140      lock mode
\*   lock_config  141-152  lock config; build the status; Ok; guards dropped
ConnectionStatusWithAddress(m, c) ==
    [connected |-> m # "Disconnected",
     mode |-> m,
     remote_address |-> <<c.host, ":", c.port>>,
     latency_ms |-> <<>>]
ConnectionStatus(m, c) ==
    [connected |-> m # "Disconnected",
     mode |-> m,
     remote_address |-> IF m = "Client" THEN <<c.host, ":", c.port>> ELSE <<>>,
     latency_ms |-> <<>>]

GetConnectionStatus(t) ==
    /\ InCall(t)
    /\ Top(t).op = "get_connection_status"
    /\ UNCHANGED deviceVars
    /\ LET f == Top(t) IN
       CASE f.pc = "lock" ->
              /\ LockFree("mode", t)
              /\ lockOwner' = Acquire(lockOwner, "mode", t)
              /\ stack' = SetTop(t, [f EXCEPT !.pc = "lock_config",
                                              !.pre = Snapshot(svc, sent, nextId)])
              /\ UNCHANGED <<svc, hist, nextFp, netVars>>
         [] f.pc = "lock_config" ->
              /\ LockFree("config", t)
              /\ Finish(t, f, [ok |-> TRUE, status |-> ConnectionStatus(svc.mode, svc.config)],
                        Snapshot(svc, sent, nextId))
              /\ lockOwner' = Release(lockOwner, "mode")
              /\ UNCHANGED <<svc, nextFp, netVars>>

\* ------------------------------------------------------- get_server_info
\* bridge.rs:154-165: only the server_info mutex is taken.
\* ok_or_else (bridge.rs:164): the error returned while no identity is stored.
NotRunningAsOk == [ok |-> TRUE, info |-> NoInfo]
NotRunning == Err("Server not running")
GetServerInfo(t) ==
    /\ InCall(t)
    /\ Top(t).op = "get_server_info"
    /\ UNCHANGED deviceVars
    /\ LockFree("server_info", t)
    /\ LET f == [Top(t) EXCEPT !.pre = Snapshot(svc, sent, nextId)] IN
       Finish(t, f,
              IF svc.server_info.present
              THEN [ok |-> TRUE, info |-> svc.server_info]
              ELSE NotRunning,
              Snapshot(svc, sent, nextId))
    /\ UNCHANGED <<svc, lockOwner, nextFp, netVars>>

\* -------------------------------------------------- the service's behaviour
TakesConfig(op) == op \in {"start_server", "connect_client"}

Step(t) ==
    \/ StartServer(t)
    \/ StopServer(t)
    \/ ConnectClient(t)
    \/ DisconnectClient(t)
    \/ GetConnectionStatus(t)
    \/ GetServerInfo(t)

Command(t) ==
    \E op \in Ops :
        IF TakesConfig(op)
        THEN \E cfg \in CallerConfigs : Call(t, op, cfg)
        ELSE Call(t, op, NoConfig)

Next == \E t \in Tasks : Command(t) \/ Step(t)

Spec == Init /\ [][Next]_vars

\* The tokio runtime polls every task that can make progress, and a tokio Mutex
\* hands the lock to its waiters in FIFO order: no waiter is passed over forever.
FairSpec == Spec /\ \A t \in Tasks : SF_vars(Step(t))

\* ------------------------------------------------------------ transport
\* network.rs used through its public API: Server::new(..).start(),
\* Client::new(..).connect(), and the handles they return.

\* Server::new + Server::start (network.rs:31-61).
ServerStart ==
    /\ Spawn("server")
    /\ UNCHANGED <<svcVars, deviceVars>>

\* The NetworkMessage values (network.rs:10-16) a client has sent to and received
\* from its peer: Client::connect opens no connection and builds no message; it
\* creates the stop channel, spawns the loop and returns Ok (network.rs:73-95).
MessagesSent(h) == {}
MessagesReceived(h) == {}

\* Client::new + Client::connect (network.rs:65-95).
ClientConnect ==
    /\ Spawn("client")
    /\ UNCHANGED <<svcVars, deviceVars>>

\* ServerHandle::stop(self) / ClientHandle::disconnect(self) (network.rs:106-118):
\* callable only by whoever still owns the handle.
HandleStop(h) ==
    /\ "handle" \in senders[h]
    /\ SendStop(h)
    /\ UNCHANGED <<svcVars, deviceVars>>

\* The handle goes out of scope without stop() / disconnect().
HandleDrop(h) ==
    /\ "handle" \in senders[h]
    /\ senders' = [senders EXCEPT ![h] = @ \ {"handle"}]
    /\ UNCHANGED <<svcVars, deviceVars, nextId, kind, loopPc, timer, buf, sent, stopReturned, tickAfterStop>>

\* The Server / Client object goes out of scope.
OwnerDrop(h) ==
    /\ "owner" \in senders[h]
    /\ DropOwner(h)
    /\ UNCHANGED <<svcVars, deviceVars>>

\* Receiver::recv() is ready with a buffered message, or with None once every
\* Sender is dropped; `_ = stop_rx.recv()` matches both (network.rs:51, 85).
RecvReadyOnMessage(h) == buf[h] > 0
RecvReady(h) == buf[h] > 0 \/ senders[h] = {}

\* `break` (network.rs:51, 85): the task ends and drops the Receiver.
AfterRecvContinue == "select"
AfterRecv == "exited"

\* The loop enters select! anew: recv() and a fresh sleep are polled at once, so a
\* pending stop wins; otherwise the task suspends.
Reenter(h) ==
    /\ loopPc' = [loopPc EXCEPT ![h] = IF RecvReady(h) THEN AfterRecv ELSE "select"]
    /\ timer' = [timer EXCEPT ![h] = FALSE]

\* tokio::time::sleep(16 ms / 100 ms) elapses while the task is suspended.
SleepElapsed(h) ==
    /\ loopPc[h] = "select"
    /\ ~timer[h]
    /\ timer' = [timer EXCEPT ![h] = TRUE]
    /\ UNCHANGED <<svcVars, deviceVars, nextId, kind, loopPc, buf, senders, sent, stopReturned, tickAfterStop>>

\* The recv branch of the select wins (network.rs:51, 85).
LoopRecv(h) ==
    /\ loopPc[h] = "select"
    /\ RecvReady(h)
    /\ loopPc' = [loopPc EXCEPT ![h] = AfterRecv]
    /\ UNCHANGED <<svcVars, deviceVars, nextId, kind, timer, buf, senders, sent, stopReturned, tickAfterStop>>

\* The sleep branch wins (network.rs:52-55, 86-89): the server loop awaits
\* capture_mouse_events; the client loop's branch is empty.
LoopTick(h) ==
    /\ loopPc[h] = "select"
    /\ timer[h]
    /\ tickAfterStop' = [tickAfterStop EXCEPT ![h] = @ \/ stopReturned[h]]
    /\ IF kind[h] = "server"
       THEN /\ loopPc' = [loopPc EXCEPT ![h] = "tick"]
            /\ timer' = timer
       ELSE Reenter(h)
    /\ UNCHANGED <<svcVars, deviceVars, nextId, kind, buf, senders, sent, stopReturned>>

\* capture_mouse_events returns (network.rs:54); the loop goes round.  The call
\* touches the InputManager alone and its result is discarded; its own steps are
\* CaptureSample and CaptureDiff, followed under SpecCapture.
TickDone(h) ==
    /\ loopPc[h] = "tick"
    /\ Reenter(h)
    /\ UNCHANGED <<svcVars, deviceVars, nextId, kind, buf, senders, sent, stopReturned, tickAfterStop>>

LoopStep(h) == LoopRecv(h) \/ LoopTick(h) \/ TickDone(h)

NextNet ==
    \/ ServerStart
    \/ ClientConnect
    \/ \E h \in Handles :
          \/ HandleStop(h)
          \/ HandleDrop(h)
          \/ OwnerDrop(h)
          \/ SleepElapsed(h)
          \/ LoopStep(h)

SpecNet == Init /\ [][NextNet]_vars

\* The tokio runtime polls a spawned task that was woken.
FairSpecNet == SpecNet /\ \A h \in Handles : WF_vars(LoopStep(h))

\* Time passes as well: a pending tokio::time::sleep (network.rs:52, 86) elapses.
FairSpecNetClock == FairSpecNet /\ \A h \in Handles : WF_vars(SleepElapsed(h))

\* ---------------------------------------------------- capture_mouse_events
\* input.rs:121-169.  The match on the index (input.rs:144-149).
ButtonNameFromOne(i) ==
    CASE i = 1 -> Some("left")
      [] i = 2 -> Some("right")
      [] i = 3 -> Some("middle")
      [] OTHER -> None
ButtonName(i) ==
    CASE i = 0 -> Some("left")
      [] i = 1 -> Some("right")
      [] i = 2 -> Some("middle")
      [] OTHER -> None

\* last_mouse.button_pressed.get(i).copied().unwrap_or(false) (input.rs:141).
LastPressed(last, i) ==
    IF i + 1 <= Len(last.button_pressed) THEN last.button_pressed[i + 1] ELSE FALSE

\* The event pushed for a move (input.rs:129-136).
MoveEventWithPressed(cur) ==
    [x |-> cur.coords[1], y |-> cur.coords[2], button |-> None,
     pressed |-> cur.button_pressed[1], wheel_x |-> 0, wheel_y |-> 0]
MoveEvent(cur) ==
    [x |-> cur.coords[1], y |-> cur.coords[2], button |-> None,
     pressed |-> FALSE, wheel_x |-> 0, wheel_y |-> 0]

\* The event pushed for index i with the name btn (input.rs:152-159).
ButtonEvent(cur, i, btn) ==
    [x |-> cur.coords[1], y |-> cur.coords[2], button |-> btn,
     pressed |-> cur.button_pressed[i + 1], wheel_x |-> 0, wheel_y |-> 0]

\* The for loop over the current flags from index i on (input.rs:140-162).
RECURSIVE ButtonEvents(_, _, _)
ButtonEvents(last, cur, i) ==
    IF i >= Len(cur.button_pressed)
    THEN <<>>
    ELSE (IF /\ cur.button_pressed[i + 1] # LastPressed(last, i)
             /\ ButtonName(i) # None
          THEN <<ButtonEvent(cur, i, ButtonName(i))>>
          ELSE <<>>)
         \o ButtonEvents(last, cur, i + 1)

\* The Vec built at input.rs:125-162.
CaptureEvents(last, cur) ==
    (IF cur.coords # last.coords THEN <<MoveEvent(cur)>> ELSE <<>>)
    \o ButtonEvents(last, cur, 0)

\* *last_mouse = current_mouse.clone() (input.rs:167), whatever was pushed.
StoredWhenReported(last, cur) == IF CaptureEvents(last, cur) = <<>> THEN last ELSE cur
Stored(last, cur) == cur

\* input.rs:122: the device is read, before the lock is asked for; the caller
\* has let go of the result of its previous call.
CaptureSample ==
    /\ capPc = "idle"
    /\ \E s \in DeviceSamples : current_mouse' = s
    /\ capPc' = "sampled"
    /\ prev_mouse' = MouseStateDefault
    /\ events' = <<>>
    /\ UNCHANGED <<last_mouse_state, injected, enigo, svcVars, netVars, trackerVars, appVars>>

\* input.rs:123-168: lock last_mouse_state, build the events, store the sample.
CaptureDiff ==
    /\ capPc = "sampled"
    /\ events' = CaptureEvents(last_mouse_state, current_mouse)
    /\ prev_mouse' = last_mouse_state
    /\ last_mouse_state' = Stored(last_mouse_state, current_mouse)
    /\ capPc' = "idle"
    /\ UNCHANGED <<current_mouse, injected, enigo, svcVars, netVars, trackerVars, appVars>>

NextCapture == CaptureSample \/ CaptureDiff

SpecCapture == Init /\ [][NextCapture]_vars

\* ------------------------------------------- capture_mouse_events, overlapping
\* Several calls on one InputManager: each loop spawned by Server::start
\* (network.rs:46-58) calls it on the Arc it was given, and the function is pub.
\* Each call reads the device (input.rs:122) and only then asks for the lock
\* (input.rs:123); from the lock to the return nothing is awaited.

\* The user flips the left button; every state of the device is read by some
\* call before the next flip.
DeviceFlip ==
    /\ deviceRead
    /\ flips < MaxFlips
    /\ device' = LeftFlipped(device)
    /\ deviceRead' = FALSE
    /\ flips' = flips + 1
    /\ UNCHANGED <<cap, latestRead, reports, inputVars, trackerVars, svcVars, netVars, pluginVars, analyticsVars>>

\* input.rs:122.
ConcSample(c) ==
    /\ cap[c].pc = "idle"
    /\ cap' = [cap EXCEPT ![c] = [pc |-> "sampled", sample |-> device]]
    /\ latestRead' = device
    /\ deviceRead' = TRUE
    /\ UNCHANGED <<device, flips, reports, inputVars, trackerVars, svcVars, netVars, pluginVars, analyticsVars>>

\* The left-button events among those a call returns.
LeftEvents(evs) == Cardinality({k \in 1..Len(evs) : evs[k].button = Some("left")})

\* input.rs:123-168, with the sample the call read at input.rs:122.
ConcDiff(c) ==
    /\ cap[c].pc = "sampled"
    /\ reports' = reports + LeftEvents(CaptureEvents(last_mouse_state, cap[c].sample))
    /\ last_mouse_state' = Stored(last_mouse_state, cap[c].sample)
    /\ cap' = [cap EXCEPT ![c].pc = "idle"]
    /\ UNCHANGED <<device, deviceRead, latestRead, flips, capPc, current_mouse,
                   prev_mouse, events, injected, enigo, trackerVars, svcVars, netVars,
                   pluginVars, analyticsVars>>

NextConc ==
    \/ DeviceFlip
    \/ \E c \in Callers : ConcSample(c)
    \/ \E c \in Callers : ConcDiff(c)

SpecConc == Init /\ [][NextConc]_vars

\* ----------------------------------------------------- emulate_mouse_event
\* input.rs:171-202.  The events it can be given: MouseEvent::button is any
\* Option<String>; "x1" stands for every string the match does not name.
ButtonStrings == {"left", "right", "middle", "x1"}
Wheels == (0 - MaxWheel)..MaxWheel
MouseEvents ==
    [x : 0..MaxCoord, y : 0..1,
     button : {None} \cup {Some(b) : b \in ButtonStrings},
     pressed : BOOLEAN, wheel_x : Wheels, wheel_y : Wheels]

\* The match on the button string (input.rs:180-185).
KnownButtons == {"left", "right", "middle"}
EnigoButton(b) ==
    CASE b = "left" -> "Left"
      [] b = "right" -> "Right"
      [] b = "middle" -> "Middle"

\* The order in which the three groups of calls are issued (input.rs:176-199).
ButtonBeforeMove(move, btn, scroll) == btn \o move \o scroll
CallOrder(move, btn, scroll) == move \o btn \o scroll

\* The Enigo calls of one emulate_mouse_event: an unknown button string returns
\* right after the move (input.rs:184).
EmulateCalls(ev) ==
    LET move == <<[call |-> "mouse_move_to", x |-> ev.x, y |-> ev.y]>>
        btn == IF ev.button = None
               THEN <<>>
               ELSE <<[call |-> IF ev.pressed THEN "mouse_down" ELSE "mouse_up",
                       button |-> EnigoButton(ev.button[1])]>>
        scroll == (IF ev.wheel_x # 0
                   THEN <<[call |-> "mouse_scroll_x", length |-> ev.wheel_x]>>
                   ELSE <<>>)
                  \o (IF ev.wheel_y # 0
                      THEN <<[call |-> "mouse_scroll_y", length |-> ev.wheel_y]>>
                      ELSE <<>>)
    IN IF ev.button # None /\ ev.button[1] \notin KnownButtons
       THEN move
       ELSE CallOrder(move, btn, scroll)

EmulateMouseEvent(ev) ==
    /\ injected' = ev
    /\ enigo' = EmulateCalls(ev)
    /\ UNCHANGED <<last_mouse_state, capPc, current_mouse, prev_mouse, events,
                   svcVars, netVars, trackerVars, appVars>>

NextInject == \E ev \in MouseEvents : EmulateMouseEvent(ev)

SpecInject == Init /\ [][NextInject]_vars

\* ----------------------------------------------------------- GestureTracker
\* input.rs:43-94.  points.remove(0) (input.rs:55).
EvictNewest(s) == SubSeq(s, 1, Len(s) - 1)
Evict(s) == Tail(s)

\* GestureTracker::add_point (input.rs:52-57): push, then evict when over the cap.
AddPoint(p) ==
    /\ added < MaxAdds
    /\ LET pushed == Append(points, p)
       IN points' = IF Len(pushed) > PointCap THEN Evict(pushed) ELSE pushed
    /\ added' = added + 1
    /\ gOp' = "add_point"
    /\ UNCHANGED <<elapsed, is_active, gesture, cfgVars, inputVars, svcVars, netVars, appVars>>

\* GestureTracker::reset (input.rs:89-93); the count of calls starts anew.
GestureReset ==
    /\ points' = <<>>
    /\ elapsed' = 0
    /\ is_active' = FALSE
    /\ gOp' = "reset"
    /\ added' = 0
    /\ UNCHANGED <<gesture, cfgVars, inputVars, svcVars, netVars, appVars>>

\* The k-th add_point since the tracker was new or reset is given the point
\* (k, 0): every buffered point tells when it arrived.
ArrivalPoint(k) == <<k, 0>>

\* Time passes: start_time.elapsed() grows (input.rs:64), in whole ms as
\* as_millis() reports it (input.rs:65).
Instants == {0, 300, MinMillis - 1, MinMillis, 600}
GestureTick ==
    /\ \E e \in Instants : e > elapsed /\ elapsed' = e
    /\ gOp' = "tick"
    /\ UNCHANGED <<points, is_active, gesture, added, cfgVars, inputVars, svcVars, netVars, appVars>>

\* The match on the angle atan2(dy, dx) * 180 / PI (input.rs:78-86): the first
\* arm that contains the angle is taken.  For integers the angle is within
\* -45.0..=45.0 exactly when dx > 0 and |dy| <= dx, and so on round the circle:
\* on a seam (|dx| = |dy|) the f64 computation yields exactly 45, 135, -135 or
\* -45, and atan2(0, dx) is 180, never -180, for dx < 0.
Abs(n) == IF n < 0 THEN 0 - n ELSE n
SectorYUp(dx, dy) ==
    IF dx > 0 /\ Abs(dy) <= dx THEN Some("right")
    ELSE IF dy > 0 /\ Abs(dx) <= dy THEN Some("up")
    ELSE IF dx < 0 /\ Abs(dy) <= 0 - dx THEN Some("left")
    ELSE IF dy < 0 /\ Abs(dx) <= 0 - dy THEN Some("down")
    ELSE None
Sector(dx, dy) ==
    IF dx > 0 /\ Abs(dy) <= dx THEN Some("right")
    ELSE IF dy > 0 /\ Abs(dx) <= dy THEN Some("down")
    ELSE IF dx < 0 /\ Abs(dy) <= 0 - dx THEN Some("left")
    ELSE IF dy < 0 /\ Abs(dx) <= 0 - dy THEN Some("up")
    ELSE None

\* distance < 50.0 (input.rs:72-74): the square root of an integer is below 50
\* exactly when the integer is below 2500.  The i32 products do not overflow for
\* displacements on a screen (below 46341 either way).
BelowFloor(dx, dy) == dx * dx + dy * dy < MinDistance * MinDistance

\* The duration test (input.rs:65).
TooSoonNever(ms) == FALSE
TooSoon(ms) == ms < MinMillis

\* GestureTracker::detect_gesture (input.rs:59-87).
DetectResult(pts, ms) ==
    IF Len(pts) < MinPoints THEN None
    ELSE IF TooSoon(ms) THEN None
    ELSE LET dx == pts[Len(pts)][1] - pts[1][1]
             dy == pts[Len(pts)][2] - pts[1][2]
         IN IF BelowFloor(dx, dy) THEN None ELSE Sector(dx, dy)

DetectGestureConsuming ==
    /\ gesture' = DetectResult(points, elapsed)
    /\ points' = <<>>
    /\ gOp' = "detect_gesture"
    /\ UNCHANGED <<elapsed, is_active, added, cfgVars, inputVars, svcVars, netVars, appVars>>
DetectGesture ==
    /\ gesture' = DetectResult(points, elapsed)
    /\ gOp' = "detect_gesture"
    /\ UNCHANGED <<points, elapsed, is_active, added, cfgVars, inputVars, svcVars, netVars, appVars>>

\* The trackers detect_gesture is applied to: a stroke of n points that stays at
\* its first point a and ends at b, at any instant, active or not.
Offsets == {-100, -41, -40, 0, 10, 30, 40, 41, 50, 100}
Starts == {<<0, 0>>, <<10, 0>>}
Lengths == {MinPoints - 1, MinPoints, MinPoints + 1}
Stroke(a, b, n) == [i \in 1..n |-> IF i < n THEN a ELSE b]
Strokes == {Stroke(a, <<a[1] + d[1], a[2] + d[2]>>, n) :
               a \in Starts, d \in Offsets \X Offsets, n \in Lengths}

InitDetect ==
    /\ ServiceNew
    /\ points \in Strokes
    /\ elapsed \in Instants
    /\ is_active \in BOOLEAN
    /\ gesture = None
    /\ gOp = "new"
    /\ added = Len(points)

NextDetect ==
    \/ DetectGesture
    \/ GestureReset
    \/ GestureTick

SpecDetect == InitDetect /\ [][NextDetect]_vars

NextGesture ==
    \/ AddPoint(ArrivalPoint(added + 1))
    \/ GestureReset
    \/ GestureTick

SpecGesture == Init /\ [][NextGesture]_vars

\* ------------------------------------------------------------- cursor speed
\* f32::max and f32::min (input.rs:266): when one operand is NaN the other is
\* returned.
FMax(a, b) == IF a.nan THEN b ELSE IF b.nan THEN a ELSE IF a.v >= b.v THEN a ELSE b
FMin(a, b) == IF a.nan THEN b ELSE IF b.nan THEN a ELSE IF a.v <= b.v THEN a ELSE b

\* speed.max(0.1).min(5.0) (input.rs:266).
ClampAbove(speed) == FMin(speed, Float(SpeedCeiling))
Clamp(speed) == FMin(FMax(speed, Float(SpeedFloor)), Float(SpeedCeiling))

\* The speeds a caller can pass: every hundredth up to MaxSpeed either side of
\* zero, and NaN.
SpeedArgs == {NaN} \cup {Float(n) : n \in (0 - MaxSpeed)..MaxSpeed}

\* set_cursor_speed (input.rs:264-269): the config lock is free whenever it is
\* asked for, since every holder releases it without awaiting.
SetCursorSpeed(speed) ==
    /\ cursor_speed' = Clamp(speed)
    /\ speedArg' = speed
    /\ speedResult' = Some(OkUnit)
    /\ cfgOp' = "set_cursor_speed"
    /\ UNCHANGED <<cursor_locked, locked_screen, mouse_acceleration, lockArg,
                   gestureVars, inputVars, svcVars, netVars, appVars>>

NextCursor == \E speed \in SpeedArgs : SetCursorSpeed(speed)

SpecCursor == Init /\ [][NextCursor]_vars

\* --------------------------------------------------------------- cursor lock
\* The screen indices a caller passes (u32): the one screen there is, and more.
Screens == 0..MaxScreen

\* lock_cursor_to_screen (input.rs:248-254).
LockCursorToScreen(screen_index) ==
    /\ cursor_locked' = TRUE
    /\ locked_screen' = Some(screen_index)
    /\ lockArg' = Some(screen_index)
    /\ cfgOp' = "lock_cursor_to_screen"
    /\ UNCHANGED <<cursor_speed, speedArg, speedResult, mouse_acceleration,
                   gestureVars, inputVars, svcVars, netVars, appVars>>

\* unlock_cursor (input.rs:256-262).
UnlockCursorKeepingScreen ==
    /\ cursor_locked' = FALSE
    /\ cfgOp' = "unlock_cursor"
    /\ UNCHANGED <<locked_screen, cursor_speed, speedArg, speedResult, mouse_acceleration,
                   lockArg, gestureVars, inputVars, svcVars, netVars, appVars>>
UnlockCursor ==
    /\ cursor_locked' = FALSE
    /\ locked_screen' = None
    /\ cfgOp' = "unlock_cursor"
    /\ UNCHANGED <<cursor_speed, speedArg, speedResult, mouse_acceleration, lockArg,
                   gestureVars, inputVars, svcVars, netVars, appVars>>

\* enable_mouse_acceleration (input.rs:271-276).
EnableMouseAcceleration(enable) ==
    /\ mouse_acceleration' = enable
    /\ cfgOp' = "enable_mouse_acceleration"
    /\ UNCHANGED <<cursor_speed, speedArg, speedResult, cursor_locked, locked_screen,
                   lockArg, gestureVars, inputVars, svcVars, netVars, appVars>>

\* A speed of each kind: NaN, below the floor, inside the range, above the ceiling.
SomeSpeeds == {NaN, Float(0 - DefaultSpeed), Float(DefaultSpeed), Float(2 * SpeedCeiling)}

NextLock ==
    \/ \E screen_index \in Screens : LockCursorToScreen(screen_index)
    \/ UnlockCursor
    \/ \E speed \in SomeSpeeds : SetCursorSpeed(speed)
    \/ \E enable \in BOOLEAN : EnableMouseAcceleration(enable)

SpecLock == Init /\ [][NextLock]_vars

\* ------------------------------------------------------------------ plugins
\* plugins.rs.  A PluginInfo is its enabled flag and its dependencies; Vec
\* dependencies are only searched (contains), so they are a set here.
Info(enabled, dependencies) == [enabled |-> enabled, dependencies |-> dependencies]

\* load_builtin_plugins (plugins.rs:64-114).
Builtin ==
    [n \in {"clipboard-sync", "performance-monitor", "auto-reconnect",
            "gesture-control", "screen-recorder"} |->
        CASE n = "clipboard-sync" -> Info(TRUE, {})
          [] n = "performance-monitor" -> Info(TRUE, {})
          [] n = "auto-reconnect" -> Info(TRUE, {})
          [] n = "gesture-control" -> Info(FALSE, {})
          [] n = "screen-recorder" -> Info(FALSE, {"performance-monitor"})]

\* The *.json files of the plugin directory (plugins.rs:115-135): file k
\* describes a plugin that depends on the one before it, the first on
\* screen-recorder, so that dependencies form a chain.
ExternalName(k) == IF k = 1 THEN "ext-1" ELSE IF k = 2 THEN "ext-2" ELSE "ext-3"
External(k) == Info(FALSE, {IF k = 1 THEN "screen-recorder" ELSE ExternalName(k - 1)})
Registry(k) ==
    [n \in DOMAIN Builtin \cup {ExternalName(i) : i \in 1..k} |->
        IF n \in DOMAIN Builtin THEN Builtin[n]
        ELSE External(CHOOSE i \in 1..k : ExternalName(i) = n)]

\* load_plugins (plugins.rs:50-62) on the new manager; there is no
\* plugin_config.json, so enabled_plugins stays empty (plugins.rs:144).
LoadPlugins ==
    /\ plugins = <<>>
    /\ plugPc = "idle"
    /\ \E k \in 0..NumExternal : plugins' = Registry(k)
    /\ UNCHANGED <<enabled_plugins, plugPc, plugOp, plugName, pluginsHeld, configHeld,
                   plugResult, plugBefore, concVars, inputVars, trackerVars,
                   svcVars, netVars, analyticsVars>>

Contains(list, n) == \E i \in 1..Len(list) : list[i] = n
Retain(list, gone) == LET Keep(n) == n \notin gone IN SelectSeq(list, Keep)

NotFound == Err("Plugin not found")
MissingDependency == Err("Plugin requires dependency")

\* The body of enable_plugin between the locks and save_plugin_config
\* (plugins.rs:173-186), and its early returns (plugins.rs:177, 188).
EnableBodyFlagFirst(pl, list, name) ==
    IF name \notin DOMAIN pl
    THEN [plugins |-> pl, enabled_plugins |-> list, result |-> Some(NotFound)]
    ELSE IF \E dep \in pl[name].dependencies : ~Contains(list, dep)
    THEN [plugins |-> [pl EXCEPT ![name].enabled = TRUE], enabled_plugins |-> list,
          result |-> Some(MissingDependency)]
    ELSE [plugins |-> [pl EXCEPT ![name].enabled = TRUE],
          enabled_plugins |-> IF Contains(list, name) THEN list ELSE Append(list, name),
          result |-> None]
EnableBody(pl, list, name) ==
    IF name \notin DOMAIN pl
    THEN [plugins |-> pl, enabled_plugins |-> list, result |-> Some(NotFound)]
    ELSE IF \E dep \in pl[name].dependencies : ~Contains(list, dep)
    THEN [plugins |-> pl, enabled_plugins |-> list, result |-> Some(MissingDependency)]
    ELSE [plugins |-> [pl EXCEPT ![name].enabled = TRUE],
          enabled_plugins |-> IF Contains(list, name) THEN list ELSE Append(list, name),
          result |-> None]

\* The body of disable_plugin (plugins.rs:199-213, 215): the plugin and every
\* plugin that lists it among its dependencies lose the flag and the entry.
Dependents(pl, name) == {n \in DOMAIN pl : name \in pl[n].dependencies}
DisableBody(pl, list, name) ==
    IF name \notin DOMAIN pl
    THEN [plugins |-> pl, enabled_plugins |-> list, result |-> Some(NotFound)]
    ELSE LET gone == {name} \cup Dependents(pl, name)
         IN [plugins |-> [n \in DOMAIN pl |->
                            IF n \in gone THEN [pl[n] EXCEPT !.enabled = FALSE] ELSE pl[n]],
             enabled_plugins |-> Retain(list, gone),
             result |-> None]

\* The names callers pass: plugins of the dependency chain, one without
\* dependencies, and a name that is never registered.
PluginNames ==
    {"performance-monitor", "screen-recorder", "ghost"} \cup
    {ExternalName(i) : i \in 1..NumExternal}

\* A caller calls enable_plugin / disable_plugin (plugins.rs:340-346) and awaits
\* it; one call at a time.
PluginCall(op, name) ==
    /\ plugins # <<>>
    /\ plugPc = "idle"
    /\ plugPc' = "lock_plugins"
    /\ plugOp' = op
    /\ plugName' = name
    /\ plugResult' = None
    /\ plugBefore' = <<plugins, enabled_plugins>>
    /\ UNCHANGED <<plugins, enabled_plugins, pluginsHeld, configHeld, concVars,
                   inputVars, trackerVars, svcVars, netVars, analyticsVars>>

\* One step of the call under way.  Both guards live to the end of the function
\* (plugins.rs:170-171, 196-197); save_plugin_config asks for the config mutex
\* again (plugins.rs:162), which is granted only when no guard of it is alive.
PluginStep ==
    /\ CASE plugPc = "lock_plugins" ->
              /\ ~pluginsHeld
              /\ pluginsHeld' = TRUE
              /\ plugPc' = "lock_config"
              /\ UNCHANGED <<plugins, enabled_plugins, configHeld, plugResult>>
         [] plugPc = "lock_config" ->
              /\ ~configHeld
              /\ configHeld' = TRUE
              /\ plugPc' = "body"
              /\ UNCHANGED <<plugins, enabled_plugins, pluginsHeld, plugResult>>
         [] plugPc = "body" ->
              LET out == IF plugOp = "enable_plugin"
                         THEN EnableBody(plugins, enabled_plugins, plugName)
                         ELSE DisableBody(plugins, enabled_plugins, plugName)
              IN /\ plugins' = out.plugins
                 /\ enabled_plugins' = out.enabled_plugins
                 /\ plugResult' = out.result
                 /\ IF out.result = None
                    THEN /\ plugPc' = "save"
                         /\ UNCHANGED <<pluginsHeld, configHeld>>
                    ELSE /\ plugPc' = "idle"
                         /\ pluginsHeld' = FALSE
                         /\ configHeld' = FALSE
         [] plugPc = "save" ->
              /\ ~configHeld
              /\ plugResult' = Some(OkUnit)
              /\ plugPc' = "idle"
              /\ pluginsHeld' = FALSE
              /\ UNCHANGED <<plugins, enabled_plugins, configHeld>>
         [] OTHER -> FALSE
    /\ UNCHANGED <<plugOp, plugName, plugBefore, concVars, inputVars, trackerVars,
                   svcVars, netVars, analyticsVars>>

\* The caller gives up a call that is waiting in save_plugin_config and drops
\* its future: the guards the call holds are dropped with it, what it has
\* written stays.
Abandoned == [ok |-> FALSE, msg |-> "dropped"]
PluginAbandon ==
    /\ plugPc = "save"
    /\ plugPc' = "idle"
    /\ pluginsHeld' = FALSE
    /\ configHeld' = FALSE
    /\ plugResult' = Some(Abandoned)
    /\ UNCHANGED <<plugins, enabled_plugins, plugOp, plugName, plugBefore, concVars,
                   inputVars, trackerVars, svcVars, netVars, analyticsVars>>

NextPlug ==
    \/ LoadPlugins
    \/ \E op \in {"enable_plugin", "disable_plugin"}, name \in PluginNames :
          PluginCall(op, name)
    \/ PluginStep
    \/ PluginAbandon

SpecPlug == Init /\ [][NextPlug]_vars

\* The runtime polls the call that a caller awaits.
FairSpecPlug == SpecPlug /\ WF_vars(PluginStep)

\* ---------------------------------------------------------------- analytics
\* analytics.rs.  `if *self.enabled.lock().await { data.<counter> += by }`
\* (analytics.rs:40-88).  The counters are u32 / u64 and start at zero; the
\* counts and byte totals followed here stay below those widths.
RecordedAlways(on, data, counter, by) == [data EXCEPT ![counter] = @ + by]
Recorded(on, data, counter, by) ==
    IF on THEN [data EXCEPT ![counter] = @ + by] ELSE data

\* The record_* function of each counter that is counted in ones
\* (analytics.rs:40-46, 56-88).
RecordOp(counter) ==
    CASE counter = "connections_made" -> "record_connection"
      [] counter = "errors_encountered" -> "record_error"
      [] counter = "mouse_events_processed" -> "record_mouse_event"
      [] counter = "clipboard_shares" -> "record_clipboard_share"
      [] counter = "hotkey_triggers" -> "record_hotkey_trigger"

Record(counter) ==
    /\ analytics_enabled => session_data[counter] < MaxCount
    /\ session_data' = Recorded(analytics_enabled, session_data, counter, 1)
    /\ aOp' = RecordOp(counter)
    /\ UNCHANGED <<analytics_enabled, aBytes, concVars, pluginVars, inputVars,
                   trackerVars, svcVars, netVars>>

\* record_data_transfer (analytics.rs:48-54).
ByteCounts == 0..MaxBytes
RecordDataTransfer(bytes) ==
    /\ analytics_enabled => session_data["data_transferred"] + bytes <= 2 * MaxBytes
    /\ session_data' = Recorded(analytics_enabled, session_data, "data_transferred", bytes)
    /\ aOp' = "record_data_transfer"
    /\ aBytes' = bytes
    /\ UNCHANGED <<analytics_enabled, concVars, pluginVars, inputVars, trackerVars,
                   svcVars, netVars>>

\* reset_session (analytics.rs:102-115).
ResetSession ==
    /\ session_data' = [c \in Counters |-> 0]
    /\ aOp' = "reset_session"
    /\ UNCHANGED <<analytics_enabled, aBytes, concVars, pluginVars, inputVars,
                   trackerVars, svcVars, netVars>>

\* enable_analytics (analytics.rs:117-120).
EnableAnalytics(enable) ==
    /\ analytics_enabled' = enable
    /\ aOp' = "enable_analytics"
    /\ UNCHANGED <<session_data, aBytes, concVars, pluginVars, inputVars, trackerVars,
                   svcVars, netVars>>

NextAnalytics ==
    \/ \E counter \in Counters \ {"data_transferred"} : Record(counter)
    \/ \E bytes \in ByteCounts : RecordDataTransfer(bytes)
    \/ ResetSession
    \/ \E enable \in BOOLEAN : EnableAnalytics(enable)

SpecAnalytics == Init /\ [][NextAnalytics]_vars

\* ------------------------------------------------------- input authority
\* The host the captured input is for.  The capture loop of the server drops
\* what capture_mouse_events returns (network.rs:52-55) and nothing reads
\* screen_layout, transition_zone_pixels (config.rs:20-25) or the screen bounds
\* (input.rs:216-226): the input stays with the local host wherever the cursor is.
Authority == "local"

\* ------------------------------------------------------------ reachability
\* Under Spec no role is ever established: start_server and connect_client keep
\* the mode guard (bridge.rs:49, 101) alive while they await stop_server, whose
\* first statement locks the same mutex (bridge.rs:83), so neither gets past
\* bridge.rs:55 / 107 and the mode, the handles and the identity keep their
\* initial values.
RoleNeverEstablished ==
    /\ svc.mode = "Disconnected"
    /\ svc.server = NoHandle /\ svc.client = NoHandle
    /\ ~svc.server_info.present
    /\ nextId = 1

\* ================================================================ claims
Quiescent == \A t \in Tasks : ~InCall(t)
Last == hist[Len(hist)]
Running(h) == loopPc[h] \in {"select", "tick"}

\* Task t is inside a top-level call of op that was issued in one of the modes.
Issued(t, op, modes) ==
    /\ InCall(t)
    /\ stack[t][1].op = op
    /\ stack[t][1].issued \in modes

\* Task t's call of op has just returned: it is the newest completed call.
Returned(t, op) ==
    /\ ~InCall(t)
    /\ Len(hist) > 0
    /\ Last.task = t
    /\ Last.op = op

\* C1: a start_server(config) call issued while the mode is Disconnected or Client
\* eventually returns success, and when it returns the mode is Server, the active
\* config is `config`, a server handle is stored and the stored identity carries
\* config.port.
C1_StartServerReturns ==
    \A t \in Tasks :
        Issued(t, "start_server", {"Disconnected", "Client"})
        ~> /\ Returned(t, "start_server")
           /\ Last.res.ok
           /\ Last.post.svc.mode = "Server"
           /\ Last.post.svc.config = Last.cfg
           /\ Last.post.svc.server # NoHandle
           /\ Last.post.svc.server_info.present
           /\ Last.post.svc.server_info.port = Last.cfg.port

\* C2: a connect_client(config) call issued while the mode is Disconnected or Server
\* eventually returns success with mode Client, a client handle stored and `config`
\* active, the server handle removed and the server identity cleared.
C2_ConnectClientReturns ==
    \A t \in Tasks :
        Issued(t, "connect_client", {"Disconnected", "Server"})
        ~> /\ Returned(t, "connect_client")
           /\ Last.res.ok
           /\ Last.post.svc.mode = "Client"
           /\ Last.post.svc.config = Last.cfg
           /\ Last.post.svc.client # NoHandle
           /\ Last.post.svc.server = NoHandle
           /\ ~Last.post.svc.server_info.present

\* C3: whenever no service call is in progress, a server handle is stored iff
\* mode = Server, a client handle is stored iff mode = Client, and no handle is
\* stored when mode = Disconnected.
C3_HandleMatchesMode ==
    Quiescent =>
        /\ (svc.server # NoHandle) <=> (svc.mode = "Server")
        /\ (svc.client # NoHandle) <=> (svc.mode = "Client")
        /\ svc.mode = "Disconnected" => svc.server = NoHandle /\ svc.client = NoHandle

\* Two role calls have completed and nothing is in progress.
C3_Witness ==
    /\ Quiescent
    /\ Len(hist) = 2
    /\ hist[1].op = "stop_server"
    /\ hist[2].op = "disconnect_client"

\* C6: stop_server called while the mode is not Server, and disconnect_client
\* called while the mode is not Client, return success, leave mode, handles,
\* identity and config as they were and send no stop signal.
NoopCall(c) ==
    \/ c.op = "stop_server" /\ c.pre.svc.mode # "Server"
    \/ c.op = "disconnect_client" /\ c.pre.svc.mode # "Client"

C6_StopWhenNotRunningIsNoop ==
    \A i \in 1..Len(hist) :
        NoopCall(hist[i]) =>
            /\ hist[i].res = OkUnit
            /\ hist[i].post.svc = hist[i].pre.svc
            /\ hist[i].post.sent = hist[i].pre.sent

\* A stop_server right after a stop_server, and then the same for disconnect_client
\* is reachable likewise; the witness is the first.
C6_Witness ==
    /\ Len(hist) = 2
    /\ hist[1].op = "stop_server" /\ NoopCall(hist[1])
    /\ hist[2].op = "stop_server" /\ NoopCall(hist[2])
    /\ hist[1].task = hist[2].task
    /\ hist[2].res = OkUnit

\* C8: when ServerHandle::stop or ClientHandle::disconnect has returned, the loop
\* the handle controls has exited.
C8_StopReturnsAfterLoopExit ==
    \A h \in Handles : stopReturned[h] => loopPc[h] = "exited"

\* C9: once a stop signal has been sent on a running loop's channel the loop
\* eventually exits, and an exited loop never runs again.
C9_StopSignalEndsLoop ==
    /\ \A h \in Handles : (sent[h] > 0 /\ Running(h)) ~> (loopPc[h] = "exited")
    /\ [][\A h \in Handles : loopPc[h] = "exited" => loopPc'[h] = "exited"]_vars

\* A loop that was signalled while running has exited.
C9_Witness ==
    \E h \in Handles : sent[h] > 0 /\ buf[h] > 0 /\ loopPc[h] = "exited"

\* C10: at most one stop signal is ever sent on the channel of a handle.
C10_AtMostOneStopSignal ==
    \A h \in Handles : sent[h] <= 1

\* A handle was used to stop its loop, and is gone.
C10_Witness ==
    \E h \in Handles : sent[h] = 1 /\ "handle" \notin senders[h] /\ stopReturned[h]

\* The locks whose guard task t keeps alive, and the steps at which a call is
\* suspended on lock().await or on the transport's send (handle.stop(),
\* handle.disconnect()); at a ret_ step it awaits a nested service call.
HeldBy(t) == {l \in Locks : lockOwner[l] = t}
LockWaits == {"lock", "lock_config", "lock_server", "lock_client", "lock_server_info"}
TransportWaits == {"send"}

C12_EveryCallReturns ==
    /\ \A t \in Tasks : InCall(t) ~> ~InCall(t)
    /\ \A l \in Locks : (lockOwner[l] # NoTask) ~> (lockOwner[l] = NoTask)

\* The status the contract prescribes for mode m and active config c: an absent
\* Option is the empty sequence, "host:port" the sequence host, ":", port.
StatusMatches(s, m, c) ==
    /\ s.connected = (m # "Disconnected")
    /\ s.mode = m
    /\ s.remote_address = (IF m = "Client" THEN <<c.host, ":", c.port>> ELSE <<>>)
    /\ s.latency_ms = <<>>
ActiveConfigs == {DefaultConfig} \cup CallerConfigs

\* C13: get_connection_status changes no service state and returns connected =
\* (mode is not Disconnected), the mode's label, remote_address = "host:port" of
\* the active config exactly when the mode is Client, and no latency; checked on
\* every completed call and on the status built for every mode and config.
C13_ConnectionStatusIsPureRead ==
    /\ \A i \in 1..Len(hist) :
          hist[i].op = "get_connection_status" =>
              /\ hist[i].res.ok
              /\ hist[i].post.svc = hist[i].pre.svc
              /\ StatusMatches(hist[i].res.status, hist[i].pre.svc.mode,
                               hist[i].pre.svc.config)
    /\ \A m \in BridgeMode : \A c \in ActiveConfigs :
          StatusMatches(ConnectionStatus(m, c), m, c)

\* A get_connection_status call returned while another task's call was under way.
C13_Witness ==
    /\ Len(hist) > 0
    /\ Last.op = "get_connection_status"
    /\ Last.res.ok
    /\ ~Last.res.status.connected
    /\ \E t \in Tasks : InCall(t) /\ t # Last.task

\* No start_server, stop_server, connect_client or disconnect_client call is
\* under way.
Transitions == {"start_server", "stop_server", "connect_client", "disconnect_client"}
NoTransition == \A t \in Tasks : InCall(t) => stack[t][1].op \notin Transitions

\* C14: a get_server_info call made while no transition is in progress returns
\* the "Server not running" error if and only if the mode is not Server, otherwise
\* the stored identity, and changes no state.  (The newest completed call is
\* looked at while still no transition is under way: one that ran beside the call
\* would either still run or have completed after it.)
C14_ServerInfoWhenSettled ==
    (Len(hist) > 0 /\ Last.op = "get_server_info" /\ NoTransition) =>
        /\ Last.post.svc = Last.pre.svc
        /\ (Last.res = Err("Server not running")) <=> (Last.pre.svc.mode # "Server")
        /\ Last.pre.svc.mode = "Server" =>
              /\ Last.pre.svc.server_info.present
              /\ Last.res = [ok |-> TRUE, info |-> Last.pre.svc.server_info]

\* get_server_info failed on a service on which a stop_server had completed.
C14_Witness ==
    /\ Len(hist) = 2
    /\ NoTransition
    /\ hist[1].op = "stop_server"
    /\ hist[2].op = "get_server_info"
    /\ ~hist[2].res.ok

\* C16: a client connection on which no Heartbeat arrives is given up by the
\* client itself (the Lost condition): its loop ends although nobody has called
\* disconnect.  The client loop receives nothing at all (network.rs:86-89), so
\* every sleep that elapses is a period without a Heartbeat.
C16_SilentConnectionIsLost ==
    \A h \in Handles :
        (kind[h] = "client" /\ Running(h)) ~> (loopPc[h] = "exited" \/ sent[h] > 0)

\* C17: a client session exists (connect has returned its handle, upon which
\* connect_client sets the mode to Client) only after the client has sent
\* ConnectionRequest and received ConnectionResponse with accepted = true.
C17_ClientOnlyAfterHandshake ==
    \A h \in Handles :
        kind[h] = "client" =>
            /\ [type |-> "ConnectionRequest"] \in MessagesSent(h)
            /\ [type |-> "ConnectionResponse", accepted |-> TRUE] \in MessagesReceived(h)

\* A capture has returned: events is what it made of prev_mouse and the sample
\* that is now stored.
Captured == capPc = "idle" /\ last_mouse_state # MouseStateDefault
Pressed(s, i) == i + 1 <= Len(s.button_pressed) /\ s.button_pressed[i + 1]
Flipped(p, c) == {i \in 0..2 : Pressed(p, i) # Pressed(c, i)}
NameOf(i) == IF i = 0 THEN "left" ELSE IF i = 1 THEN "right" ELSE "middle"

\* C18: capture_mouse_events returns a move event (no button, wheel 0) first if
\* and only if the coordinates differ, then exactly one button event for each
\* index in {0, 1, 2} whose pressed state differs from the previous sample, named
\* left / right / middle, carrying the current pressed value, in increasing index
\* order, and nothing for a flipped index of 3 or more.
C18_CaptureReturnsTheDiff ==
    Captured =>
        LET p == prev_mouse
            c == last_mouse_state
            mv == IF c.coords # p.coords THEN 1 ELSE 0
            fl == Flipped(p, c)
        IN /\ Len(events) = mv + Cardinality(fl)
           /\ mv = 1 => /\ events[1].button = None
                        /\ events[1].wheel_x = 0 /\ events[1].wheel_y = 0
                        /\ events[1].x = c.coords[1] /\ events[1].y = c.coords[2]
           /\ \A i \in fl :
                 LET e == events[mv + Cardinality({j \in fl : j <= i})]
                 IN /\ e.button = Some(NameOf(i))
                    /\ e.pressed = Pressed(c, i)
                    /\ e.x = c.coords[1] /\ e.y = c.coords[2]

\* A capture saw the pointer move, the buttons 0 and 2 flip and button 3 flip.
C18_Witness ==
    /\ Captured
    /\ prev_mouse # MouseStateDefault
    /\ prev_mouse.coords # last_mouse_state.coords
    /\ Flipped(prev_mouse, last_mouse_state) = {0, 2}
    /\ Pressed(prev_mouse, 3) # Pressed(last_mouse_state, 3)
    /\ Len(events) = 3

\* C19: every event capture_mouse_events produces encodes at most one change: an
\* event with a button has wheel_x = wheel_y = 0, and an event without a button
\* is a pure move with pressed = false and wheel_x = wheel_y = 0.
C19_OneChangePerEvent ==
    \A k \in 1..Len(events) :
        /\ events[k].wheel_x = 0 /\ events[k].wheel_y = 0
        /\ events[k].button = None => ~events[k].pressed

\* A capture returned a move and a press of a button that was down before the
\* move as well as after it.
C19_Witness ==
    /\ Captured
    /\ Len(events) = 2
    /\ events[1].button = None
    /\ events[2].button = Some("right") /\ events[2].pressed
    /\ Pressed(prev_mouse, 0) /\ Pressed(last_mouse_state, 0)

\* The rank of an Enigo call in the prescribed order: move, button, scroll.
Moves == {"mouse_move_to"}
ButtonActions == {"mouse_down", "mouse_up"}
Scrolls == {"mouse_scroll_x", "mouse_scroll_y"}
Emulated == enigo # <<>>

\* C20: emulate_mouse_event issues the absolute move first and once, then the
\* button action (down when pressed, up otherwise) for a left / right / middle
\* button, then the scrolls; no button action precedes the move and no scroll
\* precedes a button action.
C20_MoveThenButtonThenScroll ==
    Emulated =>
        /\ enigo[1] = [call |-> "mouse_move_to", x |-> injected.x, y |-> injected.y]
        /\ \A k \in 2..Len(enigo) : enigo[k].call \notin Moves
        /\ \A j, k \in 1..Len(enigo) :
              (enigo[j].call \in Scrolls /\ enigo[k].call \in ButtonActions) => k < j
        /\ (\E b \in KnownButtons : injected.button = Some(b))
              => /\ Len(enigo) >= 2
                 /\ enigo[2].call = (IF injected.pressed THEN "mouse_down" ELSE "mouse_up")
                 /\ \A k \in 3..Len(enigo) : enigo[k].call \in Scrolls
        /\ injected.button = None
              => \A k \in 2..Len(enigo) : enigo[k].call \in Scrolls

\* A press with both wheel deltas: move, down, scroll x, scroll y.
C20_Witness ==
    /\ injected.button = Some("left") /\ injected.pressed
    /\ injected.wheel_x # 0 /\ injected.wheel_y # 0
    /\ Len(enigo) = 4
    /\ enigo[2].call = "mouse_down"
    /\ enigo[3].call = "mouse_scroll_x"
    /\ enigo[4].call = "mouse_scroll_y"

\* C21: for every event whose wheel_x or wheel_y is nonzero, emulate_mouse_event
\* issues the scroll for each nonzero delta, whatever the button field holds.
C21_ScrollWhateverTheButton ==
    Emulated =>
        /\ injected.wheel_x # 0 =>
              \E k \in 1..Len(enigo) :
                  /\ enigo[k].call = "mouse_scroll_x"
                  /\ enigo[k].length = injected.wheel_x
        /\ injected.wheel_y # 0 =>
              \E k \in 1..Len(enigo) :
                  /\ enigo[k].call = "mouse_scroll_y"
                  /\ enigo[k].length = injected.wheel_y

\* C22: after any sequence of add_point calls the buffer holds at most 100
\* points, and they are exactly the most recently added ones, up to 100, in
\* arrival order: the oldest point is the one evicted.
C22_BufferKeepsNewestHundred ==
    LET n == IF added < 100 THEN added ELSE 100
    IN /\ Len(points) <= 100
       /\ Len(points) = n
       /\ \A i \in 1..n : points[i] = ArrivalPoint(added - n + i)

\* Three points have been evicted.
C22_Witness ==
    /\ added = 103
    /\ Len(points) = 100
    /\ points[1] = ArrivalPoint(4)
    /\ points[100] = ArrivalPoint(103)

\* detect_gesture was the newest step: gesture is what it returned for the
\* points and the elapsed time of this state.
Detected == gOp = "detect_gesture"
Dx == points[Len(points)][1] - points[1][1]
Dy == points[Len(points)][2] - points[1][2]

\* C23: detect_gesture returns no gesture whenever the buffer holds fewer than 5
\* points or fewer than 500 ms have elapsed since the timer was (re)started,
\* whatever the displacement is.
C23_NoGestureBelowFloors ==
    (Detected /\ (Len(points) < 5 \/ elapsed < 500)) => gesture = None

\* A long stroke of five points, detected 499 ms after the start.
C23_Witness ==
    /\ Detected
    /\ Len(points) = 5
    /\ elapsed = 499
    /\ Dx = 100 /\ Dy = 0
    /\ gesture = None

\* C24: detect_gesture emits a gesture only when the displacement between the
\* first and the last buffered point is longer than 50: one of length exactly 50
\* (dx*dx + dy*dy = 2500) or less yields no gesture.
C24_NoGestureUpToFifty ==
    (Detected /\ Len(points) > 0 /\ Dx * Dx + Dy * Dy <= 2500) => gesture = None

\* The duration, point-count and distance floors are met.
FloorsMet ==
    /\ Len(points) >= 5
    /\ elapsed >= 500
    /\ Dx * Dx + Dy * Dy > 2500

\* C25: when the floors are met and the displacement lies strictly inside a
\* sector, detect_gesture returns right if dx > |dy|, down if dy > |dx|, left if
\* -dx > |dy| and up if -dy > |dx|.
C25_DirectionInsideSector ==
    (Detected /\ FloorsMet) =>
        /\ Dx > Abs(Dy) => gesture = Some("right")
        /\ Dy > Abs(Dx) => gesture = Some("down")
        /\ 0 - Dx > Abs(Dy) => gesture = Some("left")
        /\ 0 - Dy > Abs(Dx) => gesture = Some("up")

\* The stroke (0,0) -> (100,0) detected after 600 ms yields right.
C25_Witness ==
    /\ Detected
    /\ Len(points) = 5
    /\ points[1] = <<0, 0>> /\ points[5] = <<100, 0>>
    /\ elapsed = 600
    /\ gesture = Some("right")

\* C26: a displacement whose angle is exactly on a sector seam resolves to the
\* later-listed of the two adjacent sectors in the order right, down, left, up:
\* 45 degrees (dx = dy > 0) gives down, 135 degrees left, -135 degrees up and
\* -45 degrees up.
C26_SeamGoesToLaterSector ==
    (Detected /\ FloorsMet /\ Abs(Dx) = Abs(Dy)) =>
        /\ (Dx > 0 /\ Dy > 0) => gesture = Some("down")
        /\ (Dx < 0 /\ Dy > 0) => gesture = Some("left")
        /\ (Dx < 0 /\ Dy < 0) => gesture = Some("up")
        /\ (Dx > 0 /\ Dy < 0) => gesture = Some("up")

\* C27: detect_gesture leaves the buffered points, the active flag and the stroke
\* timer unchanged, so repeating it at the same instant returns the same result;
\* reset empties the points, clears the active flag and restarts the timer, so a
\* detect_gesture immediately after reset returns no gesture.
C27_DetectReadsResetClears ==
    [][/\ gOp' = "detect_gesture" =>
            /\ points' = points /\ is_active' = is_active /\ elapsed' = elapsed
            /\ gesture' = DetectResult(points, elapsed)
            /\ Detected => gesture' = gesture
       /\ gOp' = "reset" =>
            /\ points' = <<>> /\ is_active' = FALSE /\ elapsed' = 0
       /\ (gOp = "reset" /\ gOp' = "detect_gesture") => gesture' = None]_vars

\* detect_gesture right after a reset of a tracker: nothing buffered, the timer
\* at its start, no gesture.
C27_Witness ==
    /\ Detected
    /\ points = <<>>
    /\ elapsed = 0
    /\ ~is_active
    /\ gesture = None

\* set_cursor_speed has been called: speedArg is what it was given.
SpeedSet == speedResult # None

\* C28: after any sequence of set_cursor_speed calls the stored cursor speed lies
\* in [0.1, 5.0]: a value inside the range is stored as given, a value above 5.0
\* is stored as 5.0 and a value below 0.1 as 0.1, and the call succeeds in every
\* case.
C28_SpeedIsClamped ==
    /\ ~cursor_speed.nan
    /\ cursor_speed.v >= 10 /\ cursor_speed.v <= 500
    /\ SpeedSet =>
         /\ speedResult = Some(OkUnit)
         /\ (~speedArg.nan /\ speedArg.v >= 10 /\ speedArg.v <= 500)
                => cursor_speed = speedArg
         /\ (~speedArg.nan /\ speedArg.v > 500) => cursor_speed = Float(500)
         /\ (~speedArg.nan /\ speedArg.v < 10) => cursor_speed = Float(10)

\* set_cursor_speed(-1.0) stored 0.1.
C28_Witness ==
    /\ SpeedSet
    /\ speedArg = Float(-100)
    /\ cursor_speed = Float(10)

\* C30: capture_mouse_events replaces the stored previous sample with the
\* current sample on every call, also when a flipped button was dropped as
\* unmapped; hence a second capture with no device change in between returns no
\* events.
C30_CaptureStoresTheSample ==
    [][(capPc = "sampled" /\ capPc' = "idle") =>
          /\ last_mouse_state' = current_mouse
          /\ current_mouse = last_mouse_state => events' = <<>>]_vars

\* The capture before this one stored a sample whose only news was the pressed
\* button of index 3, for which no event exists; this one read the same sample
\* and returned nothing.
C30_Witness ==
    /\ capPc = "idle"
    /\ prev_mouse = last_mouse_state
    /\ last_mouse_state.coords = <<0, 0>>
    /\ last_mouse_state.button_pressed = <<FALSE, FALSE, FALSE, TRUE>>
    /\ events = <<>>

\* The cursor is within the last transition_zone_pixels columns of the screen.
InBand(x) == x >= ScreenWidth - TransitionZone /\ x < ScreenWidth

\* C29: with Horizontal layout, a left screen of width 1920 and
\* transition_zone_pixels = 10, input authority switches to the right-hand host
\* when the cursor x enters the last 10 pixels of the left screen (x = 1915) and
\* does not switch for a cursor outside that band (x = 1900).
C29_AuthoritySwitchesInBand ==
    Captured =>
        /\ InBand(last_mouse_state.coords[1]) => Authority = "right"
        /\ ~InBand(last_mouse_state.coords[1]) => Authority = "local"

\* No capture_mouse_events call is under way.
AllReturned == \A c \in Callers : cap[c].pc = "idle"

\* C31: when several capture_mouse_events calls on the same InputManager run
\* concurrently, the stored previous sample ends up equal to the most recently
\* read device sample, and each flip of a device button is reported by exactly
\* one of the calls, never twice and never by none.
C31_ConcurrentCapturesAgree ==
    /\ AllReturned => last_mouse_state = latestRead
    /\ reports <= flips
    /\ (AllReturned /\ deviceRead) => reports = flips

\* C32: if a ServerHandle or ClientHandle is dropped without stop / disconnect
\* being called and the Server / Client object that created it no longer exists,
\* the background loop still eventually exits, because the closed stop channel
\* completes the receive branch of the loop: no loop runs for ever without a
\* live sender.
C32_ClosedChannelEndsLoop ==
    \A h \in Handles : (Running(h) /\ senders[h] = {}) ~> (loopPc[h] = "exited")

\* A loop has exited although nothing was ever sent on its channel: its handle
\* and its owner were dropped.
C32_Witness ==
    \E h \in Handles :
        /\ loopPc[h] = "exited"
        /\ sent[h] = 0 /\ ~stopReturned[h]
        /\ senders[h] = {}

\* C33: after any sequence of lock_cursor_to_screen and unlock_cursor calls,
\* cursor_locked is true if and only if locked_screen holds a screen index, and
\* that index is the argument of the most recent lock_cursor_to_screen call;
\* set_cursor_speed and enable_mouse_acceleration leave both fields unchanged.
C33_LockFlagMatchesScreen ==
    /\ [](/\ cursor_locked <=> locked_screen # None
          /\ cursor_locked => locked_screen = lockArg)
    /\ [][cfgOp' \in {"set_cursor_speed", "enable_mouse_acceleration"} =>
            /\ cursor_locked' = cursor_locked
            /\ locked_screen' = locked_screen]_vars

\* The cursor is locked to screen 1; acceleration was switched on and a speed
\* was set since the lock.
C33_Witness ==
    /\ cursor_locked
    /\ locked_screen = Some(1)
    /\ lockArg = Some(1)
    /\ cfgOp = "set_cursor_speed"
    /\ mouse_acceleration

\* A call of enable_plugin / disable_plugin has been made; plugBefore is what it
\* found.  It has ended when no call is under way.
PluginCalled == plugOp # "none"
PluginEnded == PluginCalled /\ plugPc = "idle"
Unregistered == plugName \notin DOMAIN plugBefore[1]
DependencyMissing ==
    /\ plugName \in DOMAIN plugBefore[1]
    /\ \E dep \in plugBefore[1][plugName].dependencies : ~Contains(plugBefore[2], dep)
IsError(r) == r # None /\ ~r[1].ok /\ r[1].msg # "dropped"

\* C34: enable_plugin returns an error and leaves every plugin's enabled flag
\* and the enabled_plugins list unchanged when the named plugin is not
\* registered or when one of its dependencies is not in enabled_plugins;
\* disable_plugin of an unregistered name likewise returns an error and changes
\* nothing.
C34_FailedCallChangesNothing ==
    (PluginCalled /\ (Unregistered \/ (plugOp = "enable_plugin" /\ DependencyMissing))) =>
        /\ plugins = plugBefore[1]
        /\ enabled_plugins = plugBefore[2]
        /\ plugPc \notin {"save"}
        /\ PluginEnded => IsError(plugResult)

\* enable_plugin("screen-recorder") has failed for want of performance-monitor,
\* which is registered, and flagged, but not in enabled_plugins.
C34_Witness ==
    /\ PluginEnded
    /\ plugOp = "enable_plugin"
    /\ plugName = "screen-recorder"
    /\ IsError(plugResult)
    /\ enabled_plugins = <<>>
    /\ plugins["performance-monitor"].enabled
    /\ ~plugins["screen-recorder"].enabled

\* A call that has every reason to succeed has begun.
WillSucceed ==
    /\ PluginCalled
    /\ plugPc = "lock_plugins"
    /\ ~Unregistered
    /\ plugOp = "enable_plugin" => ~DependencyMissing
Occurrences(list, n) == Cardinality({i \in 1..Len(list) : list[i] = n})

\* C35: enable_plugin of a registered plugin whose dependencies are all enabled,
\* and disable_plugin of a registered plugin, eventually return success, after
\* which the plugin is in enabled_plugins exactly once, respectively not in it
\* at all.
C35_PluginCallReturnsOk ==
    WillSucceed ~>
        /\ PluginEnded
        /\ plugResult = Some(OkUnit)
        /\ Occurrences(enabled_plugins, plugName) =
              (IF plugOp = "enable_plugin" THEN 1 ELSE 0)

\* C36: after any sequence of enable_plugin and disable_plugin calls starting
\* from an empty enabled_plugins list, every plugin in enabled_plugins has its
\* enabled flag set and all of its dependencies are also in enabled_plugins,
\* including for dependency chains of length two or more.
C36_EnabledListIsClosed ==
    plugPc = "idle" =>
        \A i \in 1..Len(enabled_plugins) :
            /\ plugins[enabled_plugins[i]].enabled
            /\ \A dep \in plugins[enabled_plugins[i]].dependencies :
                   Contains(enabled_plugins, dep)

\* The newest call was a record_* call, and the counter it is for.
RecordOps == {RecordOp(c) : c \in Counters \ {"data_transferred"}} \cup {"record_data_transfer"}
CounterOf(op) ==
    IF op = "record_data_transfer" THEN "data_transferred"
    ELSE CHOOSE c \in Counters \ {"data_transferred"} : RecordOp(c) = op

\* C37: while analytics is disabled, every record_* call leaves all session
\* counters unchanged; while enabled, each record_* call increases exactly its
\* own counter (by 1, or by the byte count for record_data_transfer) and no
\* other; reset_session sets every counter to zero whether or not analytics is
\* enabled.
C37_RecordCountsOnlyWhenEnabled ==
    /\ [][aOp' \in RecordOps =>
            IF analytics_enabled
            THEN \A c \in Counters :
                    session_data'[c] = session_data[c] +
                        (IF c # CounterOf(aOp') THEN 0
                         ELSE IF c = "data_transferred" THEN aBytes' ELSE 1)
            ELSE session_data' = session_data]_vars
    /\ [](aOp = "reset_session" => \A c \in Counters : session_data[c] = 0)

\* One connection and two bytes were counted; analytics was then disabled and a
\* second record_connection left the counters as they were.
C37_Witness ==
    /\ aOp = "record_connection"
    /\ ~analytics_enabled
    /\ session_data["connections_made"] = 1
    /\ session_data["data_transferred"] = 2

====
